---- MODULE Spec2Model ----
(***************************************************************************)
(* Particle morphing engine of crypto_fellas                               *)
(* (src/components/canvas/ParticleSystem.tsx).                             *)
(*                                                                         *)
(* React state is modelled in two layers: the state cells written by the   *)
(* setters (isMorphing, morphProgress, currentModelIndex) and the values   *)
(* captured by the closures of the last committed render (render, and the  *)
(* triggerMorph handles published on window.particleSystem).               *)
(* Float32 positions are fixed-point integers; Math.random() and the       *)
(* simplex noise functions are nondeterministic choices from small sets.   *)
(***************************************************************************)
EXTENDS Integers, Sequences, FiniteSets, TLC

VARIABLES
    isMorphing,          \* useState(false)
    morphProgress,       \* useState(0), in units of 1/ProgressScale
    currentModelIndex,   \* useState(0)
    render,              \* state captured by the closures of the last committed render
    particleSystem,      \* triggerMorph closure published on window.particleSystem
    systemRef,           \* handle a caller saved earlier (Home.tsx systemRef.current)
    nextModelIndexRef,
    modelPositionsRef,   \* shape library, <<>> until loadModels finishes
    sourcePositionsRef,
    swarmPositionsRef,
    currentPositionsRef,
    geometryPosition,    \* meshRef.current.geometry.attributes.position.array (live buffer)
    loops,               \* running requestAnimationFrame chains started by triggerMorph
    morphTimelineRef,
    shapeChanges,        \* onShapeChange notifications emitted so far
    morphsStarted,       \* number of animation loops started (model bound)
    animatableRef,
    wrapperRef,
    uniforms,            \* shaderMaterialRef.current.uniforms
    scrollState,         \* the write-only useState cells of the scroll setters
    tweenBound,          \* TRUE iff the influences array held by the GSAP timeline is
                         \* still animatableRef.current.influences
    requestedInfluences, \* weights of the last setInfluences call, none once another
                         \* control has changed the influences
    edgeBrightnessConfig,\* optional per-model brightness config of CreateParticlePositions
    gltf,                \* scene handed to CreateParticlePositions, in traversal order
    count,               \* this.count
    vertices,            \* the vertex list collected by the last createParticles call
    sampled,             \* the vertex index the last createParticles call chose for each particle
    created,             \* the arrays returned by the last createParticles call
    cloud,               \* point cloud handed to / returned by the normalizer
    targetSize,          \* target size of the normalizer
    normalizedFrom,      \* the cloud the last normalizeWithBounds call was given
    yRange,              \* <<minY, maxY, den>>: the Y range minY/den..maxY/den returned by
                         \* the last normalizeWithBounds call
    generator,           \* [name, count, size]: the shape generator call to make
    generated,           \* positions returned by the last shape generator call
    failedModels,        \* indices of the model files whose load fails
    colorScheme,         \* useState<ColorScheme>("rainbow")
    textures,            \* number of textures in the textures state, 0 until they load
    shaderMaterial,      \* the [textures, colorScheme] the material in use was built from
    morphSystem,         \* state, refs and animation loops of the ParticleMorphSystem component
    lastCall,            \* last operation executed and its argument
    raised               \* TRUE iff the last operation threw

morphVars == <<isMorphing, morphProgress, currentModelIndex, render, particleSystem,
               systemRef, nextModelIndexRef, modelPositionsRef, sourcePositionsRef,
               swarmPositionsRef, currentPositionsRef, geometryPosition, loops,
               morphTimelineRef, shapeChanges, morphsStarted>>
controlVars == <<animatableRef, wrapperRef, uniforms, scrollState, tweenBound,
                 requestedInfluences>>
\* createParticles: its inputs, its local vertex list and the arrays it returns
extractVars == <<edgeBrightnessConfig, gltf, count, vertices, sampled, created>>

\* the shape functions: their inputs and results
shapeVars == <<cloud, targetSize, normalizedFrom, yRange, generator, generated>>

\* the dependencies of the shaderMaterial useMemo and the material built from them
materialVars == <<colorScheme, textures, shaderMaterial>>

vars == <<morphVars, controlVars, extractVars, shapeVars, failedModels, materialVars,
          morphSystem, lastCall, raised>>

----------------------------------------------------------------------------
(* Bounds of the model *)

NumParticles == 1
MorphTicks == 2
MaxMorphs == 2
MaxLoops == 2
MaxSurfaceMorphs == 1
MaxNodes == 2
MaxVertices == 1
MaxCount == 3
MaxPoints == 2

(* Program constants *)

NumShapes == 5
SwirlFactorX10 == 10
NoiseMaxStrengthX10 == 0

(* Fixed-point resolution of a position coordinate *)
Fix == 10

Null == "null"

\* morphTimelineRef.current = null: no animation frame is requested (request ids are positive)
NoFrame == 0
NoBuffer == <<>>
NoRequest == <<>>

BufferLen == 3 * NumParticles

----------------------------------------------------------------------------
(* Arithmetic helpers *)

Min(a, b) == IF a < b THEN a ELSE b

Abs(a) == IF a < 0 THEN -a ELSE a

\* NaN is no index of any array
NaN == -999

\* JavaScript's remainder: the sign follows the dividend, x % 0 is NaN
JsMod(a, n) == IF n = 0 THEN NaN ELSE IF a >= 0 THEN a % n ELSE -((-a) % n)

\* morphProgress is kept in units of 1/ProgressScale so that the easing polynomial is exact
ProgressScale == 10 * MorphTicks * MorphTicks * MorphTicks

\* progress = Math.min(elapsed / duration, 1), elapsed counted in ticks of duration/MorphTicks
\* easeProgress = 3t^2 - 2t^3 + (t^3 - 2t^2 + t) * 0.4
EaseProgress(elapsed) ==
    LET e == Min(elapsed, MorphTicks)
    IN  (22 * e * e * MorphTicks + 4 * e * MorphTicks * MorphTicks - 16 * e * e * e)

\* Math.sin(t * Math.PI) in units of 1/1000 (Bhaskara's rational approximation)
SinPi(p) ==
    (16 * p * (ProgressScale - p) * 1000)
        \div (5 * ProgressScale * ProgressScale - 4 * p * (ProgressScale - p))

\* currentSwirl = effectStrength * swirlFactor * 0.05 > 0.01
SwirlOn(p) == SinPi(p) * SwirlFactorX10 * 5 > 10000

\* a noise offset that is applied at every progress
NoiseOnAlways(p) == p = p

\* currentNoise = effectStrength * noiseMaxStrength > 0.01
NoiseOn(p) == SinPi(p) * NoiseMaxStrengthX10 > 100

\* bezPos = source*(1-t)^2 + swarm*2(1-t)t + target*t^2, one coordinate
Bezier(s, w, g, p) ==
    LET q == ProgressScale - p
    IN  (q * q * s + 2 * q * p * w + p * p * g) \div (ProgressScale * ProgressScale)

----------------------------------------------------------------------------
(* Shape library produced by loadModels: five normalised point clouds *)

ShapeCoord(k, j) == Fix * (2 * k + ((j - 1) % 3) - 5 + ((j - 1) \div 3))

ShapeLibrary == [k \in 1..NumShapes |-> [j \in 1..BufferLen |-> ShapeCoord(k - 1, j)]]

\* PARTICLE_MODEL_PATH: the gamepad, card and saturn files
ModelFiles == 1..3

\* the normalised procedural shape (sphere, cube, pyramid) that stands in for model k
FallbackShape(k) == [j \in 1..BufferLen |-> ShapeCoord(k - 1, j) + 1]

ShapeOfModelNoFallback(k) == ShapeLibrary[k]

\* gamepad ? new CreateParticlePositions(gamepad, ...).createParticles() : generateSphere(...)
ShapeOfModel(k) ==
    IF k \in failedModels THEN FallbackShape(k) ELSE ShapeLibrary[k]

\* the library loadModels stores when the files in failedModels did not load
LoadedLibrary == [k \in 1..NumShapes |-> ShapeOfModel(k)]

ValidIndex(i) == i \in 0..(Len(modelPositionsRef) - 1)

ParticleOf(j) == ((j - 1) \div 3) + 1

\* offsets added to the swarm midpoint along the noise direction (Math.random scaled)
SwarmOffsets == {3 * Fix, -2 * Fix}

\* displacement left by the swirl rotation and the noise offset
Perturbations == {0, Fix}

----------------------------------------------------------------------------
(* State after the component has mounted: first render committed, effects   *)
(* run (shaderMaterialRef and wrapperRef set, window.particleSystem         *)
(* published), loadModels still pending.                                    *)

DefaultUniforms ==
    [u_scale |-> 4,
     u_opacity |-> 10,
     u_morphTargetInfluences |-> <<0, 0, 0, 0, 0>>,
     uMorphProgress |-> 0,
     uEffectStrength |-> 0,
     uNoiseStrength |-> 0,
     uScatterAmount |-> 10,
     uUseTexture |-> 10,
     uModelMinY |-> -6 * Fix,
     uModelMaxY |-> 6 * Fix]

Vec(x, y, z) == [x |-> x, y |-> y, z |-> z]

\* keys of COLOR_SCHEMES
ColorSchemes == {"fire", "neon", "nature", "rainbow", "red", "sunset"}

\* TEXTURE_PATHS.length
TextureCount == 1

\* the dependencies the shaderMaterial useMemo compares between renders
MaterialDeps == [textures |-> textures, colorScheme |-> colorScheme]

\* ParticleMorphSystem before its mount effect: no buffers, no loops
Unmounted ==
    [isMorphing |-> FALSE, morphProgress |-> 0, currentShapeIndex |-> 0,
     render |-> [isMorphing |-> FALSE, morphProgress |-> 0, currentShapeIndex |-> 0],
     targetPositionsRef |-> <<>>, sourcePositionsRef |-> <<>>,
     currentPositionsRef |-> <<>>, loops |-> <<>>, started |-> 0, shapeChanges |-> <<>>,
     swarmTarget |-> -1, frameTarget |-> -1]

\* first render: no texture loaded yet, the material is built with the default texture
FirstMaterial ==
    /\ colorScheme = "rainbow"
    /\ textures = 0
    /\ shaderMaterial = [textures |-> 0, colorScheme |-> "rainbow"]

InitMorph ==
    /\ isMorphing = FALSE
    /\ morphProgress = 0
    /\ currentModelIndex = 0
    /\ render = [isMorphing |-> FALSE, morphProgress |-> 0, currentModelIndex |-> 0]
    /\ particleSystem = [isMorphing |-> FALSE, currentModelIndex |-> 0]
    /\ systemRef = [isMorphing |-> FALSE, currentModelIndex |-> 0]
    /\ nextModelIndexRef = 0
    /\ modelPositionsRef = <<>>
    /\ sourcePositionsRef = NoBuffer
    /\ swarmPositionsRef = NoBuffer
    /\ currentPositionsRef = NoBuffer
    /\ geometryPosition = NoBuffer
    /\ loops = <<>>
    /\ morphTimelineRef = NoFrame
    /\ shapeChanges = <<>>
    /\ morphsStarted = 0

InitControl ==
    /\ animatableRef = [rotation |-> Vec(0, 0, 0), position |-> Vec(0, 0, 0),
                        influences |-> <<0, 0, 0, 0, 0>>]
    /\ wrapperRef = [rotation |-> Vec(0, 0, 0), position |-> Vec(0, 0, 0)]
    /\ uniforms = DefaultUniforms
    /\ scrollState = [particleScale |-> 20, scatterAmount |-> 10,
                      modelOffset |-> <<0, 0, 0>>, opacity |-> 10,
                      rotation |-> <<0, 0, 0>>]
    /\ tweenBound = TRUE
    /\ requestedInfluences = NoRequest

NoArrays == [positions |-> <<>>, edgeBrightness |-> <<>>]

\* edgeBrightnessConfig left undefined by the caller
NoConfig == [given |-> FALSE, default |-> 0, names |-> [glass |-> 0]]

\* a point cloud: the coordinates are num[j] / den
NoCloud == [num |-> <<>>, den |-> 1]

NoGenerator == [name |-> "none", count |-> 0, size |-> 0]

\* createParticles has not been given anything
IdleExtract ==
    /\ edgeBrightnessConfig = NoConfig
    /\ gltf = <<>>
    /\ count = 0
    /\ vertices = <<>>
    /\ sampled = <<>>
    /\ created = NoArrays

\* the shape functions have not been given anything
IdleShapes ==
    /\ cloud = NoCloud
    /\ targetSize = 0
    /\ normalizedFrom = NoCloud
    /\ yRange = <<0, 0, 1>>
    /\ generator = NoGenerator
    /\ generated = <<>>

Init ==
    /\ InitMorph
    /\ InitControl
    /\ IdleExtract
    /\ IdleShapes
    /\ failedModels = {}
    /\ FirstMaterial
    /\ morphSystem = Unmounted
    /\ lastCall = [op |-> "mount", arg |-> Null]
    /\ raised = FALSE

----------------------------------------------------------------------------
(* loadModels: the shape library and the position buffers are installed *)

MinY(positions) ==
    LET ys == {positions[j] : j \in {i \in 1..Len(positions) : i % 3 = 2}}
    IN  CHOOSE y \in ys : \A z \in ys : y <= z

MaxY(positions) ==
    LET ys == {positions[j] : j \in {i \in 1..Len(positions) : i % 3 = 2}}
    IN  CHOOSE y \in ys : \A z \in ys : y >= z

LoadModels ==
    /\ modelPositionsRef = <<>>
    /\ uniforms' = [uniforms EXCEPT !.uModelMinY = MinY(LoadedLibrary[1]),
                                    !.uModelMaxY = MaxY(LoadedLibrary[1])]
    /\ geometryPosition' = LoadedLibrary[1]
    /\ modelPositionsRef' = LoadedLibrary
    /\ sourcePositionsRef' = LoadedLibrary[1]
    /\ currentPositionsRef' = LoadedLibrary[1]
    /\ swarmPositionsRef' = [j \in 1..BufferLen |-> 0]
    /\ UNCHANGED <<extractVars, shapeVars, failedModels, materialVars, morphSystem>>
    /\ lastCall' = [op |-> "loadModels", arg |-> Null]
    /\ raised' = FALSE
    /\ UNCHANGED <<isMorphing, morphProgress, currentModelIndex, render, particleSystem,
                   systemRef, nextModelIndexRef, loops, morphTimelineRef, shapeChanges,
                   morphsStarted, animatableRef, wrapperRef, scrollState, tweenBound,
                   requestedInfluences>>

----------------------------------------------------------------------------
(* triggerMorph, called through a published handle h.  The guard reads the  *)
(* isMorphing and currentModelIndex captured when h was created.            *)

\* swarm waypoint: midpoint of source and target, pushed along a noise direction
SwarmPositions(source, target, offset) ==
    [j \in 1..Len(source) |-> ((source[j] + target[j]) \div 2) + offset[ParticleOf(j)]]

\* noise3DRef and noise4DRef are created by loadModels together with the buffers
NoiseReady == Len(modelPositionsRef) > 0

TriggerGuardNoInitCheck(h) == h.isMorphing

TriggerGuard(h) ==
    \/ h.isMorphing
    \/ currentPositionsRef = NoBuffer
    \/ sourcePositionsRef = NoBuffer
    \/ swarmPositionsRef = NoBuffer
    \/ Len(modelPositionsRef) = 0

TriggerMorphVia(h) ==
    /\ UNCHANGED <<extractVars, shapeVars, failedModels, materialVars, morphSystem>>
    /\ lastCall' = [op |-> "triggerMorph", arg |-> Null]
    /\ IF TriggerGuard(h)
       THEN /\ raised' = FALSE
            /\ UNCHANGED <<morphVars, controlVars>>
       ELSE LET nextModelIndex == JsMod(h.currentModelIndex + 1, Len(modelPositionsRef))
            IN  /\ isMorphing' = TRUE
                /\ nextModelIndexRef' = nextModelIndex
                /\ IF ~NoiseReady
                   THEN \* noise3DRef.current is null: the swarm loop is skipped
                        /\ loops' = Append(loops, [id |-> morphsStarted + 1, elapsed |-> 0,
                                                   nextModelIndex |-> nextModelIndex])
                        /\ morphTimelineRef' = morphsStarted + 1
                        /\ morphsStarted' = morphsStarted + 1
                        /\ raised' = FALSE
                        /\ UNCHANGED swarmPositionsRef
                   ELSE IF ValidIndex(nextModelIndex) /\ sourcePositionsRef /= NoBuffer
                   THEN \E offset \in [1..NumParticles -> SwarmOffsets] :
                          /\ swarmPositionsRef' =
                                SwarmPositions(sourcePositionsRef,
                                               modelPositionsRef[nextModelIndex + 1], offset)
                          /\ loops' = Append(loops, [id |-> morphsStarted + 1, elapsed |-> 0,
                                                     nextModelIndex |-> nextModelIndex])
                          /\ morphTimelineRef' = morphsStarted + 1
                          /\ morphsStarted' = morphsStarted + 1
                          /\ raised' = FALSE
                   ELSE \* a buffer read in the swarm loop is null or undefined: it throws
                        /\ raised' = TRUE
                        /\ UNCHANGED <<swarmPositionsRef, loops, morphTimelineRef, morphsStarted>>
                /\ UNCHANGED <<morphProgress, currentModelIndex, render, particleSystem,
                               systemRef, modelPositionsRef, sourcePositionsRef,
                               currentPositionsRef, geometryPosition, shapeChanges,
                               controlVars>>

TriggerMorph == TriggerMorphVia(particleSystem)

\* a caller that kept an earlier window.particleSystem object (Home.tsx systemRef)
TriggerMorphStale == systemRef /= particleSystem /\ TriggerMorphVia(systemRef)

\* Home.tsx checkSystem: systemRef.current = win.particleSystem
SaveHandle ==
    /\ systemRef /= particleSystem
    /\ systemRef' = particleSystem
    /\ UNCHANGED <<extractVars, shapeVars, failedModels, materialVars, morphSystem>>
    /\ lastCall' = [op |-> "checkSystem", arg |-> Null]
    /\ raised' = FALSE
    /\ UNCHANGED <<isMorphing, morphProgress, currentModelIndex, render, particleSystem,
                   nextModelIndexRef, modelPositionsRef, sourcePositionsRef,
                   swarmPositionsRef, currentPositionsRef, geometryPosition, loops,
                   morphTimelineRef, shapeChanges, morphsStarted, controlVars>>

----------------------------------------------------------------------------
(* animate: one requestAnimationFrame callback of the loop at position i *)

RemoveAt(s, i) == [k \in 1..(Len(s) - 1) |-> IF k < i THEN s[k] ELSE s[k + 1]]

\* a clock that stops one step short of the morph duration
ProgressAtStalled(elapsed) == Min(elapsed, MorphTicks - 1)

\* progress = Math.min(elapsed / MORPH_CONFIG.duration, 1), in steps of duration/MorphTicks
ProgressAt(elapsed) == Min(elapsed, MorphTicks)

Animate(i) ==
    /\ i \in 1..Len(loops)
    /\ LET loop == loops[i]
           progress == ProgressAt(loop.elapsed)
       IN  IF progress < MorphTicks
           THEN /\ morphProgress' = EaseProgress(loop.elapsed)
                /\ morphTimelineRef' = loop.id
                /\ UNCHANGED <<isMorphing, currentModelIndex, nextModelIndexRef,
                               sourcePositionsRef, currentPositionsRef, loops, shapeChanges>>
           ELSE /\ currentModelIndex' = loop.nextModelIndex
                /\ nextModelIndexRef' = loop.nextModelIndex
                /\ IF /\ currentPositionsRef /= NoBuffer
                      /\ ValidIndex(loop.nextModelIndex)
                      /\ sourcePositionsRef /= NoBuffer
                      /\ geometryPosition /= NoBuffer
                   THEN /\ currentPositionsRef' = geometryPosition
                        /\ sourcePositionsRef' = geometryPosition
                   ELSE UNCHANGED <<currentPositionsRef, sourcePositionsRef>>
                /\ morphProgress' = 0
                /\ isMorphing' = FALSE
                /\ shapeChanges' = Append(shapeChanges, loop.nextModelIndex)
                /\ morphTimelineRef' = NoFrame
                /\ loops' = RemoveAt(loops, i)
    /\ UNCHANGED <<extractVars, shapeVars, failedModels, materialVars, morphSystem>>
    /\ lastCall' = [op |-> "animate",
                    arg |-> IF ProgressAt(loops[i].elapsed) < MorphTicks THEN "frame"
                                                                             ELSE "complete"]
    /\ raised' = FALSE
    /\ UNCHANGED <<render, particleSystem, systemRef, modelPositionsRef, swarmPositionsRef,
                   geometryPosition, morphsStarted, controlVars>>

\* wall-clock time (Date.now) advances by duration/MorphTicks
Tick ==
    /\ \E i \in 1..Len(loops) : loops[i].elapsed < MorphTicks
    /\ loops' = [i \in 1..Len(loops) |->
                    [loops[i] EXCEPT !.elapsed = Min(loops[i].elapsed + 1, MorphTicks)]]
    /\ UNCHANGED <<extractVars, shapeVars, failedModels, materialVars, morphSystem>>
    /\ lastCall' = [op |-> "tick", arg |-> Null]
    /\ raised' = FALSE
    /\ UNCHANGED <<isMorphing, morphProgress, currentModelIndex, render, particleSystem,
                   systemRef, nextModelIndexRef, modelPositionsRef, sourcePositionsRef,
                   swarmPositionsRef, currentPositionsRef, geometryPosition,
                   morphTimelineRef, shapeChanges, morphsStarted, controlVars>>

----------------------------------------------------------------------------
(* React commits a re-render: the closures capture the current state and    *)
(* the effect republishes window.particleSystem.                            *)

Commit ==
    /\ \/ render /= [isMorphing |-> isMorphing, morphProgress |-> morphProgress,
                     currentModelIndex |-> currentModelIndex]
       \/ particleSystem /= [isMorphing |-> isMorphing,
                             currentModelIndex |-> currentModelIndex]
       \/ shaderMaterial /= MaterialDeps
    /\ render' = [isMorphing |-> isMorphing, morphProgress |-> morphProgress,
                  currentModelIndex |-> currentModelIndex]
    /\ particleSystem' = [isMorphing |-> isMorphing, currentModelIndex |-> currentModelIndex]
    \* useMemo(..., [textures, defaultTexture, colorScheme]) builds a new ShaderMaterial
    \* when a dependency changed; the effect stores it in shaderMaterialRef.current
    /\ shaderMaterial' = MaterialDeps
    /\ uniforms' = IF shaderMaterial /= MaterialDeps THEN DefaultUniforms ELSE uniforms
    /\ UNCHANGED <<extractVars, shapeVars, failedModels, morphSystem, colorScheme, textures>>
    /\ lastCall' = [op |-> "commit", arg |-> Null]
    /\ raised' = FALSE
    /\ UNCHANGED <<isMorphing, morphProgress, currentModelIndex, systemRef,
                   nextModelIndexRef, modelPositionsRef, sourcePositionsRef,
                   swarmPositionsRef, currentPositionsRef, geometryPosition, loops,
                   morphTimelineRef, shapeChanges, morphsStarted, animatableRef,
                   wrapperRef, scrollState, tweenBound, requestedInfluences>>

----------------------------------------------------------------------------
(* The dependencies of the shader material: setColorScheme and the end of   *)
(* the asynchronous texture loading.                                        *)

\* handleColorSchemeChange(scheme): setColorScheme(scheme); the colour uniforms it
\* writes on the material in use are not part of the modelled uniforms
SetColorScheme(scheme) ==
    /\ colorScheme' = scheme
    /\ UNCHANGED <<extractVars, shapeVars, failedModels, morphSystem, textures, shaderMaterial>>
    /\ lastCall' = [op |-> "setColorScheme", arg |-> scheme]
    /\ raised' = FALSE
    /\ UNCHANGED <<morphVars, controlVars>>

\* loadTextures resolves: setTextures(loadedTextures)
TexturesLoaded ==
    /\ textures = 0
    /\ textures' = TextureCount
    /\ UNCHANGED <<extractVars, shapeVars, failedModels, morphSystem, colorScheme, shaderMaterial>>
    /\ lastCall' = [op |-> "loadTextures", arg |-> Null]
    /\ raised' = FALSE
    /\ UNCHANGED <<morphVars, controlVars>>

----------------------------------------------------------------------------
(* useFrame: the per-frame callback, running with the closures of the last  *)
(* committed render.                                                        *)

\* updateMorphAnimation raises when modelPositionsRef.current[targetIndex] is undefined
UpdateRaises(targetIndex) == NumParticles > 0 /\ ~ValidIndex(targetIndex)

\* the positions written by updateMorphAnimation
MorphPositions(source, swarm, targets, t, perturbation) ==
    [j \in 1..Len(source) |->
        Bezier(source[j], swarm[j], targets[j], t)
          + (IF SwirlOn(t) \/ NoiseOn(t) THEN perturbation[ParticleOf(j)] ELSE 0)]

\* a geometry attribute that keeps the array it is given: a frame writes into shape 0
StoredAfterWriteAliased(library, positions) ==
    IF library = <<>> THEN library ELSE [library EXCEPT ![1] = positions]

\* new THREE.Float32BufferAttribute(gamepadPositions, 3) copies the array it is given,
\* so the positions a frame writes into the geometry leave the stored shapes alone
StoredAfterWrite(library, positions) == library

\* frame uniforms whose noise strength is not scaled by MORPH_CONFIG.noiseMaxStrength
FrameUniformsUnscaledNoise ==
    [uniforms EXCEPT
        !.uMorphProgress = render.morphProgress,
        !.uEffectStrength = IF render.isMorphing THEN SinPi(render.morphProgress) ELSE 0,
        !.uNoiseStrength = IF render.isMorphing THEN SinPi(render.morphProgress) ELSE 0,
        !.u_morphTargetInfluences = animatableRef.influences]

FrameUniforms ==
    [uniforms EXCEPT
        !.uMorphProgress = render.morphProgress,
        !.uEffectStrength = IF render.isMorphing THEN SinPi(render.morphProgress) ELSE 0,
        !.uNoiseStrength = IF render.isMorphing
                           THEN NoiseMaxStrengthX10 * SinPi(render.morphProgress) ELSE 0,
        !.u_morphTargetInfluences = animatableRef.influences]

UseFrame ==
    /\ uniforms' = FrameUniforms
    /\ wrapperRef' = [rotation |-> animatableRef.rotation, position |-> animatableRef.position]
    /\ UNCHANGED <<extractVars, shapeVars, failedModels, materialVars, morphSystem>>
    /\ lastCall' = [op |-> "useFrame", arg |-> Null]
    /\ IF ~render.isMorphing
       THEN raised' = FALSE /\ UNCHANGED geometryPosition
       ELSE IF geometryPosition = NoBuffer
       THEN \* geometry.attributes.position is undefined on the empty <bufferGeometry />
            raised' = TRUE /\ UNCHANGED geometryPosition
       ELSE IF \/ sourcePositionsRef = NoBuffer
               \/ swarmPositionsRef = NoBuffer
               \/ currentPositionsRef = NoBuffer
               \/ Len(modelPositionsRef) = 0
               \/ ~NoiseReady
       THEN raised' = FALSE /\ UNCHANGED geometryPosition
       ELSE LET targetIndex == IF render.isMorphing THEN nextModelIndexRef
                                                    ELSE render.currentModelIndex
            IN  IF UpdateRaises(targetIndex)
                THEN raised' = TRUE /\ UNCHANGED geometryPosition
                ELSE /\ raised' = FALSE
                     /\ \E perturbation \in [1..NumParticles -> Perturbations] :
                          geometryPosition' =
                              MorphPositions(sourcePositionsRef, swarmPositionsRef,
                                             modelPositionsRef[targetIndex + 1],
                                             render.morphProgress, perturbation)
    /\ modelPositionsRef' = StoredAfterWrite(modelPositionsRef, geometryPosition')
    /\ UNCHANGED <<isMorphing, morphProgress, currentModelIndex, render, particleSystem,
                   systemRef, nextModelIndexRef, sourcePositionsRef,
                   swarmPositionsRef, currentPositionsRef, loops, morphTimelineRef,
                   shapeChanges, morphsStarted, animatableRef, scrollState, tweenBound,
                   requestedInfluences>>

----------------------------------------------------------------------------
(* setTargetModelIndex(index) *)

\* indices a caller may pass: a shape, the last shape, one past the end, a negative number
TargetIndexInputs == {2, 4, 5, -2}

TargetInfluences(index) ==
    IF index = 1 THEN <<10, 0, 0, 0, 0>>
    ELSE IF index = 2 THEN <<10, 10, 0, 0, 0>>
    ELSE IF index = 3 THEN <<0, 0, 10, 0, 0>>
    ELSE IF index = 4 THEN <<0, 0, 0, 10, 0>>
    ELSE <<0, 0, 0, 0, 0>>

SetTargetModelIndex(index) ==
    /\ uniforms' = [uniforms EXCEPT !.u_morphTargetInfluences = TargetInfluences(index)]
    /\ nextModelIndexRef' = index
    /\ currentModelIndex' = index
    /\ requestedInfluences' = NoRequest
    /\ UNCHANGED <<extractVars, shapeVars, failedModels, materialVars, morphSystem>>
    /\ lastCall' = [op |-> "setTargetModelIndex", arg |-> index]
    /\ raised' = FALSE
    /\ UNCHANGED <<isMorphing, morphProgress, render, particleSystem, systemRef,
                   modelPositionsRef, sourcePositionsRef, swarmPositionsRef,
                   currentPositionsRef, geometryPosition, loops, morphTimelineRef,
                   shapeChanges, morphsStarted, animatableRef, wrapperRef, scrollState,
                   tweenBound>>

----------------------------------------------------------------------------
(* The morph engine: loading, triggers, animation loops, frames *)

\* the model stops starting loops at its bounds
WithinBounds == morphsStarted < MaxMorphs /\ Len(loops) < MaxLoops

Next ==
    \/ LoadModels
    \/ WithinBounds /\ TriggerMorph
    \/ WithinBounds /\ TriggerMorphStale
    \/ SaveHandle
    \/ \E i \in 1..MaxLoops : Animate(i)
    \/ Tick
    \/ Commit
    \/ UseFrame

Spec == Init /\ [][Next]_vars

----------------------------------------------------------------------------
(* The cyclic scenario: every triggerMorph is called only after the         *)
(* previous morph has completed and its state has been committed.           *)

Quiescent ==
    /\ loops = <<>>
    /\ ~isMorphing
    /\ render = [isMorphing |-> isMorphing, morphProgress |-> morphProgress,
                 currentModelIndex |-> currentModelIndex]
    /\ particleSystem = [isMorphing |-> isMorphing, currentModelIndex |-> currentModelIndex]

NextCycle ==
    \/ LoadModels
    \/ Quiescent /\ morphsStarted < NumShapes /\ TriggerMorph
    \/ Animate(1)
    \/ Tick
    \/ Commit
    \/ UseFrame

SpecCycle == Init /\ [][NextCycle]_vars

----------------------------------------------------------------------------
(* The control surface published on window.particleSystem.  Scalars are in  *)
(* tenths.  shaderMaterialRef.current and wrapperRef.current are set once   *)
(* the component has mounted, so their null checks always pass.             *)

Undefined == "undefined"

\* weights a caller may pass to setInfluences
InfluenceInputs == {<<5, 0, 0>>, <<10, 10, 0, 0, 0>>}

SetInfluencesNoSync(influences) ==
    /\ uniforms' = [uniforms EXCEPT !.u_morphTargetInfluences = influences]
    /\ requestedInfluences' = influences
    /\ UNCHANGED <<extractVars, shapeVars, failedModels, materialVars, morphSystem>>
    /\ lastCall' = [op |-> "setInfluences", arg |-> influences]
    /\ raised' = FALSE
    /\ UNCHANGED <<morphVars, animatableRef, wrapperRef, scrollState, tweenBound>>

SetInfluences(influences) ==
    /\ uniforms' = [uniforms EXCEPT !.u_morphTargetInfluences = influences]
    \* animatableRef.current.influences = [...influences]: a new array
    /\ animatableRef' = [animatableRef EXCEPT !.influences = influences]
    /\ tweenBound' = FALSE
    /\ requestedInfluences' = influences
    /\ UNCHANGED <<extractVars, shapeVars, failedModels, materialVars, morphSystem>>
    /\ lastCall' = [op |-> "setInfluences", arg |-> influences]
    /\ raised' = FALSE
    /\ UNCHANGED <<morphVars, wrapperRef, scrollState>>

\* values a GSAP tween writes into the influences array it holds
TweenInfluenceInputs == {<<0, 0, 10, 0, 0>>}

\* Home.tsx: gsap.to(win.particleSystem.animatable.influences, {...}) writes the
\* elements of the array it was given when the timeline was built
TweenInfluences(influences) ==
    /\ tweenBound
    /\ animatableRef.influences /= influences
    /\ animatableRef' = [animatableRef EXCEPT !.influences = influences]
    /\ requestedInfluences' = NoRequest
    /\ UNCHANGED <<extractVars, shapeVars, failedModels, materialVars, morphSystem>>
    /\ lastCall' = [op |-> "tweenInfluences", arg |-> influences]
    /\ raised' = FALSE
    /\ UNCHANGED <<morphVars, wrapperRef, uniforms, scrollState, tweenBound>>

\* Home.tsx builds its timelines on the current animatable.influences array
BuildTimeline ==
    /\ ~tweenBound
    /\ tweenBound' = TRUE
    /\ UNCHANGED <<extractVars, shapeVars, failedModels, materialVars, morphSystem>>
    /\ lastCall' = [op |-> "buildTimeline", arg |-> Null]
    /\ raised' = FALSE
    /\ UNCHANGED <<morphVars, animatableRef, wrapperRef, uniforms, scrollState,
                   requestedInfluences>>

\* uniforms.<name>.value = v raises a TypeError when the material declares no such uniform
UniformDeclared(name) == name \in DOMAIN uniforms

SetScalarUniform(op, cell, name, value) ==
    /\ scrollState' = IF cell = Undefined THEN scrollState
                      ELSE [scrollState EXCEPT ![cell] = value]
    /\ IF UniformDeclared(name)
       THEN uniforms' = [uniforms EXCEPT ![name] = value] /\ raised' = FALSE
       ELSE raised' = TRUE /\ UNCHANGED uniforms
    /\ UNCHANGED <<extractVars, shapeVars, failedModels, materialVars, morphSystem>>
    /\ lastCall' = [op |-> op, arg |-> value]
    /\ UNCHANGED <<morphVars, animatableRef, wrapperRef, tweenBound, requestedInfluences>>

ScalarInputs == {0, 5}

SetOpacity(opacity) == SetScalarUniform("setOpacity", "opacity", "uOpacity", opacity)

SetScale(scale) == SetScalarUniform("setScale", "particleScale", "u_scale", scale)

SetScatter(scatter) == SetScalarUniform("setScatter", "scatterAmount", "uScatterAmount", scatter)

SetUseTexture(use) ==
    SetScalarUniform("setUseTexture", Undefined, "uUseTexture", IF use THEN 10 ELSE 0)

----------------------------------------------------------------------------
(* setModelOffset and setRotation: a 3-tuple or a partial {x?, y?, z?} *)

Axes == {"x", "y", "z"}

\* a partial object carries the axes it supplies; a tuple supplies all three
Partial(given, x, y, z) == [kind |-> "partial", given |-> given, x |-> x, y |-> y, z |-> z]

Tuple(x, y, z) == [kind |-> "tuple", given |-> Axes, x |-> x, y |-> y, z |-> z]

\* arguments a caller may pass
TransformInputs == {Partial({"x"}, 1, 0, 0), Partial({"y"}, 0, 2, 0), Tuple(3, 3, 3)}

\* rotation.x !== undefined ? rotation.x : currentX, for each axis
MergeInto(current, arg) ==
    [a \in Axes |-> IF a \in arg.given THEN arg[a] ELSE current[a]]

SetTransform(op, field, cell, arg) ==
    LET new == IF arg.kind = "partial" THEN MergeInto(wrapperRef[field], arg)
               ELSE Vec(arg.x, arg.y, arg.z)
    IN  /\ wrapperRef' = [wrapperRef EXCEPT ![field] = new]
        /\ animatableRef' = [animatableRef EXCEPT ![field] = new]
        /\ scrollState' = [scrollState EXCEPT ![cell] = <<new.y, new.x, new.z>>]
        /\ UNCHANGED <<extractVars, shapeVars, failedModels, materialVars, morphSystem>>
        /\ lastCall' = [op |-> op, arg |-> arg]
        /\ raised' = FALSE
        /\ UNCHANGED <<morphVars, uniforms, tweenBound, requestedInfluences>>

SetModelOffset(offset) == SetTransform("setModelOffset", "position", "modelOffset", offset)

SetRotation(rotation) == SetTransform("setRotation", "rotation", "rotation", rotation)

\* values a GSAP tween writes into one axis of animatable.position / animatable.rotation
TweenValues == {4}

\* Home.tsx: gsap.to(win.particleSystem.animatable.position, {y: -3, ...})
TweenTransform(field, axis, value) ==
    /\ animatableRef[field][axis] /= value
    /\ animatableRef' = [animatableRef EXCEPT ![field][axis] = value]
    /\ UNCHANGED <<extractVars, shapeVars, failedModels, materialVars, morphSystem>>
    /\ lastCall' = [op |-> "tweenTransform", arg |-> <<field, axis>>]
    /\ raised' = FALSE
    /\ UNCHANGED <<morphVars, wrapperRef, uniforms, scrollState, tweenBound,
                   requestedInfluences>>

----------------------------------------------------------------------------
(* Specifications of the control surface *)

\* influences and target index set from outside while the engine loads, morphs and renders
NextSurface ==
    \/ LoadModels
    \/ morphsStarted < MaxSurfaceMorphs /\ Len(loops) < MaxLoops /\ TriggerMorph
    \/ \E i \in 1..MaxLoops : Animate(i)
    \/ Tick
    \/ Commit
    \/ UseFrame
    \/ \E influences \in InfluenceInputs : SetInfluences(influences)
    \/ \E index \in TargetIndexInputs : SetTargetModelIndex(index)
    \/ \E influences \in TweenInfluenceInputs : TweenInfluences(influences)
    \/ BuildTimeline

SpecSurface == Init /\ [][NextSurface]_vars

\* influences set from outside while morphs run one after the other
NextInfluence ==
    \/ LoadModels
    \/ Quiescent /\ morphsStarted < MaxSurfaceMorphs /\ TriggerMorph
    \/ Animate(1)
    \/ Tick
    \/ Commit
    \/ UseFrame
    \/ \E influences \in InfluenceInputs : SetInfluences(influences)

SpecInfluence == Init /\ [][NextInfluence]_vars

\* loading with any subset of the model files missing, then morphs between the
\* loaded shapes, one after the other
InitLoad ==
    /\ InitMorph
    /\ InitControl
    /\ IdleExtract
    /\ IdleShapes
    /\ failedModels \in SUBSET ModelFiles
    /\ FirstMaterial
    /\ morphSystem = Unmounted
    /\ lastCall = [op |-> "mount", arg |-> Null]
    /\ raised = FALSE

NextLoad ==
    \/ LoadModels
    \/ Quiescent /\ morphsStarted < MaxSurfaceMorphs /\ TriggerMorph
    \/ Animate(1)
    \/ Tick
    \/ Commit

SpecLoad == InitLoad /\ [][NextLoad]_vars

\* the morph engine while animation frames keep firing and time advances:
\* requestAnimationFrame runs every scheduled animate callback and Date.now()
\* moves on, the component stays mounted (the cleanup effect never runs)
NextFrames ==
    \/ LoadModels
    \/ WithinBounds /\ TriggerMorph
    \/ WithinBounds /\ TriggerMorphStale
    \/ SaveHandle
    \/ \E i \in 1..MaxLoops : Animate(i)
    \/ Tick
    \/ Commit

SpecFrames ==
    /\ Init
    /\ [][NextFrames]_vars
    /\ WF_loops(Tick)
    /\ \A i \in 1..MaxLoops : WF_loops(Animate(i))

(* The per-frame morph update as a function of its inputs: any source      *)
(* shape, any target shape, any swarm waypoints between them and any eased  *)
(* progress in [0, 1]; each frame applies updateMorphAnimation to them.     *)

InitInterpolate ==
    /\ \E from \in 0..(NumShapes - 1), to \in 0..(NumShapes - 1),
          offset \in [1..NumParticles -> SwarmOffsets], t \in 0..ProgressScale :
          /\ isMorphing = TRUE
          /\ morphProgress = t
          /\ currentModelIndex = from
          /\ render = [isMorphing |-> TRUE, morphProgress |-> t, currentModelIndex |-> from]
          /\ particleSystem = [isMorphing |-> TRUE, currentModelIndex |-> from]
          /\ systemRef = [isMorphing |-> TRUE, currentModelIndex |-> from]
          /\ nextModelIndexRef = to
          /\ sourcePositionsRef = ShapeLibrary[from + 1]
          /\ currentPositionsRef = ShapeLibrary[from + 1]
          /\ geometryPosition = ShapeLibrary[from + 1]
          /\ swarmPositionsRef =
                SwarmPositions(ShapeLibrary[from + 1], ShapeLibrary[to + 1], offset)
          /\ loops = <<[id |-> 1, elapsed |-> 0, nextModelIndex |-> to]>>
    /\ modelPositionsRef = ShapeLibrary
    /\ morphTimelineRef = 1
    /\ shapeChanges = <<>>
    /\ morphsStarted = 1
    /\ InitControl
    /\ IdleExtract
    /\ IdleShapes
    /\ failedModels = {}
    /\ FirstMaterial
    /\ morphSystem = Unmounted
    /\ lastCall = [op |-> "triggerMorph", arg |-> Null]
    /\ raised = FALSE

NextInterpolate == UseFrame

SpecInterpolate == InitInterpolate /\ [][NextInterpolate]_vars

----------------------------------------------------------------------------
(* ParticleMorphSystem (src/components/canvas/ParticleMorphSystem.tsx): the  *)
(* procedural-shape morph component.  Its state is the record morphSystem;  *)
(* swarmTarget and frameTarget record the stored shape read by the last     *)
(* swarm computation and by the last per-frame morph update.                *)

\* SHAPES.length
NumMorphShapes == 6

MorphShapes == [k \in 1..NumMorphShapes |-> [j \in 1..BufferLen |-> ShapeCoord(k - 1, j)]]

PMSStep(op, next) ==
    /\ morphSystem' = next
    /\ lastCall' = [op |-> op, arg |-> Null]
    /\ raised' = FALSE
    /\ UNCHANGED <<morphVars, controlVars, extractVars, shapeVars, failedModels, materialVars>>

\* mount effect: targetPositionsRef.current = SHAPES.map(shape => shape.generator(...))
PMSMount ==
    /\ morphSystem.targetPositionsRef = <<>>
    /\ PMSStep("pmsMount", [morphSystem EXCEPT !.targetPositionsRef = MorphShapes,
                                                !.sourcePositionsRef = MorphShapes[1],
                                                !.currentPositionsRef = MorphShapes[1]])

\* triggerMorph of the last committed render (the click handler's closure)
PMSTriggerMorph ==
    /\ morphSystem.started < MaxMorphs
    /\ Len(morphSystem.loops) < MaxLoops
    /\ IF morphSystem.render.isMorphing \/ morphSystem.targetPositionsRef = <<>>
       THEN PMSStep("pmsTriggerMorph", morphSystem)
       ELSE LET nextShapeIndex == JsMod(morphSystem.render.currentShapeIndex + 1,
                                        NumMorphShapes)
            IN  PMSStep("pmsTriggerMorph",
                        [morphSystem EXCEPT
                            !.isMorphing = TRUE,
                            !.swarmTarget = nextShapeIndex,
                            !.started = @ + 1,
                            !.loops = Append(@, [elapsed |-> 0,
                                                 nextShapeIndex |-> nextShapeIndex])])

\* animate: one requestAnimationFrame callback of the loop at position i
PMSAnimate(i) ==
    /\ i \in 1..Len(morphSystem.loops)
    /\ LET loop == morphSystem.loops[i]
       IN  IF ProgressAt(loop.elapsed) < MorphTicks
           THEN PMSStep("pmsAnimate",
                        [morphSystem EXCEPT !.morphProgress = EaseProgress(loop.elapsed)])
           ELSE PMSStep("pmsAnimate",
                        [morphSystem EXCEPT
                            !.currentShapeIndex = loop.nextShapeIndex,
                            \* currentPositionsRef.current.set(nextTargetPositions)
                            !.currentPositionsRef =
                                morphSystem.targetPositionsRef[loop.nextShapeIndex + 1],
                            !.sourcePositionsRef =
                                morphSystem.targetPositionsRef[loop.nextShapeIndex + 1],
                            !.shapeChanges = Append(@, loop.nextShapeIndex),
                            !.morphProgress = 0,
                            !.isMorphing = FALSE,
                            !.loops = RemoveAt(@, i)])

PMSTick ==
    /\ \E i \in 1..Len(morphSystem.loops) : morphSystem.loops[i].elapsed < MorphTicks
    /\ PMSStep("pmsTick",
               [morphSystem EXCEPT
                   !.loops = [i \in 1..Len(@) |->
                                 [@[i] EXCEPT !.elapsed = Min(@ + 1, MorphTicks)]]])

\* React commits a re-render: the closures capture the current state
PMSCommit ==
    LET state == [isMorphing |-> morphSystem.isMorphing,
                  morphProgress |-> morphSystem.morphProgress,
                  currentShapeIndex |-> morphSystem.currentShapeIndex]
    IN  /\ morphSystem.render /= state
        /\ PMSStep("pmsCommit", [morphSystem EXCEPT !.render = state])

\* useFrame: updateMorphAnimation reads targetPositionsRef.current[currentShapeIndex]
\* while isMorphing, updateIdleAnimation reads no stored shape
PMSUseFrame ==
    /\ morphSystem.targetPositionsRef /= <<>>
    /\ PMSStep("pmsUseFrame",
               [morphSystem EXCEPT
                   !.frameTarget = IF morphSystem.render.isMorphing
                                   THEN morphSystem.render.currentShapeIndex
                                   ELSE -1])

NextMorphSystem ==
    \/ PMSMount
    \/ PMSTriggerMorph
    \/ \E i \in 1..MaxLoops : PMSAnimate(i)
    \/ PMSTick
    \/ PMSCommit
    \/ PMSUseFrame

SpecMorphSystem == Init /\ [][NextMorphSystem]_vars

\* scroll controls, model loading, texture loading and colour scheme changes in any order
SchemeInputs == {"rainbow", "fire"}

NextMaterial ==
    \/ LoadModels
    \/ \E scale \in ScalarInputs : SetScale(scale)
    \/ \E scatter \in ScalarInputs : SetScatter(scatter)
    \/ \E use \in BOOLEAN : SetUseTexture(use)
    \/ \E scheme \in SchemeInputs : SetColorScheme(scheme)
    \/ TexturesLoaded
    \/ Commit
    \/ UseFrame

SpecMaterial == Init /\ [][NextMaterial]_vars

\* position and rotation set from outside and tweened between frames
NextTransform ==
    \/ UseFrame
    \/ \E offset \in TransformInputs : SetModelOffset(offset)
    \/ \E rotation \in TransformInputs : SetRotation(rotation)
    \/ \E field \in {"position", "rotation"}, value \in TweenValues :
          TweenTransform(field, "y", value)

SpecTransform == Init /\ [][NextTransform]_vars

\* the scalar setters
NextScalars ==
    \/ LoadModels
    \/ UseFrame
    \/ \E opacity \in ScalarInputs : SetOpacity(opacity)
    \/ \E scale \in ScalarInputs : SetScale(scale)
    \/ \E scatter \in ScalarInputs : SetScatter(scatter)
    \/ \E use \in BOOLEAN : SetUseTexture(use)

SpecScalars == Init /\ [][NextScalars]_vars

----------------------------------------------------------------------------
(* CreateParticlePositions.createParticles.  Weights and brightness are in  *)
(* tenths.  Math.random() is a nondeterministic value in [0, 1): a test     *)
(* Math.random() < f can go either way exactly when 0 < f.                   *)

Max(a, b) == IF a > b THEN a ELSE b

NAME_DENSITY_WEIGHTS ==
    [glass |-> 3, Circle |-> 15, Circle002 |-> 50, Circle003 |-> 15, Circle004 |-> 15,
     Cylinder |-> 10, Cube |-> 20, Cube002 |-> 20, default |-> 10]

NAME_EDGE_BRIGHTNESS == [default |-> 10]

getDensityWeight(name) ==
    IF name = "" THEN NAME_DENSITY_WEIGHTS.default
    ELSE IF name \in DOMAIN NAME_DENSITY_WEIGHTS /\ NAME_DENSITY_WEIGHTS[name] /= 0
    THEN NAME_DENSITY_WEIGHTS[name]
    ELSE NAME_DENSITY_WEIGHTS.default

\* configs a caller may pass: none, or one with its own default and a named mesh
EdgeBrightnessConfigs == {NoConfig, [given |-> TRUE, default |-> 20, names |-> [glass |-> 30]]}

\* the common NAME_EDGE_BRIGHTNESS names no mesh
getEdgeBrightness(name, config) ==
    IF config.given
    THEN IF name /= "" /\ name \in DOMAIN config.names THEN config.names[name]
         ELSE config.default
    ELSE NAME_EDGE_BRIGHTNESS.default

\* nodes of a scene: a group, a mesh whose geometry has no position attribute,
\* and named meshes with no vertex or with MaxVertices vertices
MeshNames == {"", "glass", "Circle", "Cube"}

NodeInputs ==
    {[kind |-> "Group", name |-> "", vertexCount |-> 0],
     [kind |-> "MeshWithoutPosition", name |-> "", vertexCount |-> 0]}
    \cup {[kind |-> "Mesh", name |-> n, vertexCount |-> v] :
             n \in MeshNames, v \in {0, MaxVertices}}

Scenes == UNION {[1..n -> NodeInputs] : n \in 0..MaxNodes}

\* a replication that pushes the extra copy whatever the fractional part is
CopiesAlwaysExtra(densityWeight) ==
    IF densityWeight >= 10
    THEN {densityWeight \div 10, densityWeight \div 10 + 1}
    ELSE IF densityWeight > 0 THEN {0, 1} ELSE {0}

\* how many times one vertex of a mesh of the given weight may be pushed
Copies(densityWeight) ==
    IF densityWeight >= 10
    THEN {densityWeight \div 10}
         \cup (IF densityWeight % 10 > 0 THEN {densityWeight \div 10 + 1} ELSE {})
    ELSE IF densityWeight > 0 THEN {0, 1} ELSE {0}

\* vertex i of the k-th node, in world coordinates
VertexData(k, i, name) ==
    [position |-> <<k * Fix, i * Fix, 0>>,
     edgeBrightness |-> getEdgeBrightness(name, edgeBrightnessConfig)]

Repeat(v, n) == [j \in 1..n |-> v]

RECURSIVE MeshVertices(_, _, _)
\* the lists vertices i.. of the k-th node can add to the vertex list
MeshVertices(node, k, i) ==
    IF i > node.vertexCount THEN {<<>>}
    ELSE {Repeat(VertexData(k, i, node.name), c) \o rest :
             c \in Copies(getDensityWeight(node.name)),
             rest \in MeshVertices(node, k, i + 1)}

RECURSIVE Traverse(_, _)
\* the vertex lists the traversal of nodes k.. can collect
Traverse(scene, k) ==
    IF k > Len(scene) THEN {<<>>}
    ELSE LET here == IF scene[k].kind = "Mesh" THEN MeshVertices(scene[k], k, 1)
                     ELSE {<<>>}
         IN  {h \o rest : h \in here, rest \in Traverse(scene, k + 1)}

\* Math.floor of a double product whose exact value is num / den: the rounding
\* of the division can leave an exact integer just below itself
FloorOfProduct(num, den) ==
    IF num % den = 0 /\ num \div den > 0 THEN {num \div den, num \div den - 1}
    ELSE {num \div den}

\* vertices.length >= count: base index plus a random offset within one step
StrideIndices(i, len, n) ==
    LET ceilStep == (len + n - 1) \div n
    IN  {Min(baseIndex + randomOffset, len - 1) :
            baseIndex \in FloorOfProduct(i * len, n),
            randomOffset \in 0..(Max(1, ceilStep) - 1)}

\* vertices.length < count: cyclic sampling
CyclicIndices(i, len, n) == {baseIndex % len : baseIndex \in FloorOfProduct(i * len, n)}

RECURSIVE SampleIndices(_, _, _)
\* the choices of a vertex index for the particles i..count-1, as sequences
SampleIndices(len, n, i) ==
    IF i >= n THEN {<<>>}
    ELSE {<<index>> \o rest :
             index \in (IF len >= n THEN StrideIndices(i, len, n)
                        ELSE CyclicIndices(i, len, n)),
             rest \in SampleIndices(len, n, i + 1)}

PositionsLengthByVertices(list, n) == Len(list) * 3

\* new Float32Array(this.count * 3)
PositionsLength(list, n) == n * 3

SampledFirstBrightness(list, n, f) ==
    [positions |->
        [j \in 1..PositionsLength(list, n) |->
            IF (j - 1) \div 3 < n
            THEN list[f[(j - 1) \div 3 + 1] + 1].position[((j - 1) % 3) + 1]
            ELSE 0],
     edgeBrightness |-> [i \in 1..n |-> list[1].edgeBrightness]]

\* the arrays after the sampling loop has written particle 0..count-1; a write
\* past the end of a typed array is dropped
Sampled(list, n, f) ==
    [positions |->
        [j \in 1..PositionsLength(list, n) |->
            IF (j - 1) \div 3 < n
            THEN list[f[(j - 1) \div 3 + 1] + 1].position[((j - 1) % 3) + 1]
            ELSE 0],
     edgeBrightness |-> [i \in 1..n |-> list[f[i] + 1].edgeBrightness]]

\* this.edgeBrightnessConfig?.default ?? 1.0
DefaultBrightness == IF edgeBrightnessConfig.given THEN edgeBrightnessConfig.default ELSE 10

\* a fallback that leaves the brightness array as allocated
EmptyShapeUnfilled(n) ==
    [positions |-> [j \in 1..(n * 3) |-> 0],
     edgeBrightness |-> [i \in 1..n |-> 0]]

\* vertices.length === 0: zero positions and the default brightness
EmptyShape(n) ==
    [positions |-> [j \in 1..(n * 3) |-> 0],
     edgeBrightness |-> [i \in 1..n |-> DefaultBrightness]]

\* called once for each loaded model
CreateParticles ==
    /\ lastCall.op /= "createParticles"
    /\ \E list \in Traverse(gltf, 1) :
          /\ vertices' = list
          /\ IF Len(list) = 0
             THEN created' = EmptyShape(count) /\ sampled' = <<>>
             ELSE \E f \in SampleIndices(Len(list), count, 0) :
                     created' = Sampled(list, count, f) /\ sampled' = f
    /\ lastCall' = [op |-> "createParticles", arg |-> Null]
    /\ raised' = FALSE
    /\ UNCHANGED <<morphVars, controlVars, shapeVars, failedModels, materialVars,
                   morphSystem, edgeBrightnessConfig, gltf, count>>

InitExtract ==
    /\ InitMorph
    /\ InitControl
    /\ edgeBrightnessConfig \in EdgeBrightnessConfigs
    /\ gltf \in Scenes
    /\ count \in 0..MaxCount
    /\ vertices = <<>>
    /\ sampled = <<>>
    /\ created = NoArrays
    /\ IdleShapes
    /\ failedModels = {}
    /\ FirstMaterial
    /\ morphSystem = Unmounted
    /\ lastCall = [op |-> "mount", arg |-> Null]
    /\ raised = FALSE

NextExtract == CreateParticles

SpecExtract == InitExtract /\ [][NextExtract]_vars

----------------------------------------------------------------------------
(* normalizeParticlePositions and normalizeWithBounds, in exact rational    *)
(* arithmetic: a cloud is a sequence of integer numerators over one common  *)
(* denominator, kept in lowest terms.                                        *)

RECURSIVE GCD(_, _)
GCD(a, b) == IF b = 0 THEN Abs(a) ELSE GCD(b, a % Abs(b))

RECURSIVE GCDOfAll(_, _, _)
GCDOfAll(seq, j, g) == IF j > Len(seq) THEN g ELSE GCDOfAll(seq, j + 1, GCD(g, Abs(seq[j])))

\* the value of a fraction does not depend on how it is written
Reduce(num, den) ==
    LET g == GCDOfAll(num, 1, den)
    IN  [num |-> [j \in 1..Len(num) |-> num[j] \div g], den |-> den \div g]

\* the numerators on axis a (0 = x, 1 = y, 2 = z)
AxisValues(num, a) == {num[j] : j \in {i \in 1..Len(num) : (i - 1) % 3 = a}}

MinOf(S) == CHOOSE x \in S : \A y \in S : x <= y

MaxOf(S) == CHOOSE x \in S : \A y \in S : x >= y

maxDimensionOfX(sizeX, sizeY, sizeZ) == sizeX

\* Math.max(sizeX, sizeY, sizeZ)
maxDimension(sizeX, sizeY, sizeZ) == Max(sizeX, Max(sizeY, sizeZ))

normalizeParticlePositionsFixedScale(positions, size) ==
    IF Len(positions.num) = 0 THEN positions
    ELSE LET n == positions.num
             lo == [a \in 0..2 |-> MinOf(AxisValues(n, a))]
             hi == [a \in 0..2 |-> MaxOf(AxisValues(n, a))]
             centred == [j \in 1..Len(n) |-> 2 * n[j] - lo[(j - 1) % 3] - hi[(j - 1) % 3]]
         IN  Reduce([j \in 1..Len(n) |-> centred[j] * size], 2 * positions.den)

\* (x - center) * scale with center = (min + max) / 2 and
\* scale = maxDimension > 0 ? targetSize / maxDimension : 1
normalizeParticlePositions(positions, size) ==
    IF Len(positions.num) = 0 THEN positions
    ELSE LET n == positions.num
             lo == [a \in 0..2 |-> MinOf(AxisValues(n, a))]
             hi == [a \in 0..2 |-> MaxOf(AxisValues(n, a))]
             dim == maxDimension(hi[0] - lo[0], hi[1] - lo[1], hi[2] - lo[2])
             centred == [j \in 1..Len(n) |-> 2 * n[j] - lo[(j - 1) % 3] - hi[(j - 1) % 3]]
         IN  IF dim > 0
             THEN Reduce([j \in 1..Len(n) |-> centred[j] * size], 2 * dim)
             ELSE Reduce(centred, 2 * positions.den)

normalizeWithBounds(positions, size) ==
    IF Len(positions.num) = 0
    THEN [positions |-> positions, yRange |-> <<-size, size, 2>>]
    ELSE LET normalized == normalizeParticlePositions(positions, size)
         IN  [positions |-> normalized,
              yRange |-> <<MinOf(AxisValues(normalized.num, 1)),
                           MaxOf(AxisValues(normalized.num, 1)), normalized.den>>]

\* coordinates and sizes the normalizer is given
Coordinates == {0, 1, 3}

\* the default target size and PARTICLE_SHAPE_SIZE
TargetSizes == {10, 12}

Clouds == UNION {{[num |-> num, den |-> 1] : num \in [1..(3 * n) -> Coordinates]} :
                    n \in 0..MaxPoints}

\* normalizeWithBounds(cloud, targetSize); the result can be normalized again
Normalize ==
    /\ LET result == normalizeWithBounds(cloud, targetSize)
       IN  /\ cloud' = result.positions
           /\ yRange' = result.yRange
    /\ normalizedFrom' = cloud
    /\ lastCall' = [op |-> "normalizeWithBounds", arg |-> Null]
    /\ raised' = FALSE
    /\ UNCHANGED <<morphVars, controlVars, extractVars, failedModels, materialVars, morphSystem, targetSize, generator,
                   generated>>

InitNormalize ==
    /\ InitMorph
    /\ InitControl
    /\ IdleExtract
    /\ failedModels = {}
    /\ FirstMaterial
    /\ morphSystem = Unmounted
    /\ cloud \in Clouds
    /\ targetSize \in TargetSizes
    /\ normalizedFrom = NoCloud
    /\ yRange = <<0, 0, 1>>
    /\ generator = NoGenerator
    /\ generated = <<>>
    /\ lastCall = [op |-> "mount", arg |-> Null]
    /\ raised = FALSE

NextNormalize == Normalize

SpecNormalize == InitNormalize /\ [][NextNormalize]_vars

\* the extent of a cloud along axis a, and its largest extent, as numerators
Extent(c, a) == MaxOf(AxisValues(c.num, a)) - MinOf(AxisValues(c.num, a))

LargestExtent(c) == MaxOf({Extent(c, a) : a \in 0..2})

Centred(c) == \A a \in 0..2 : MinOf(AxisValues(c.num, a)) + MaxOf(AxisValues(c.num, a)) = 0

----------------------------------------------------------------------------
(* The shape generators.  Lengths are in thousandths of a unit, angles in   *)
(* thousandths of a turn, sines and cosines in thousandths.  Math.random()  *)
(* takes the values q / 4 for q in RandomQuarters.                           *)

RandomQuarters == {0, 3}

\* Math.sin and Math.cos of an angle in thousandths of a turn
SinTurns(t) ==
    LET m == t % 1000
        half(h) == (4000 * h * (500 - h)) \div (312500 - h * (500 - h))
    IN  IF m <= 500 THEN half(m) ELSE -half(m - 500)

CosTurns(t) == SinTurns(t + 250)

\* Math.acos(2 * q / 4 - 1), in thousandths of a turn
AcosTurns(q) == CASE q = 0 -> 500 [] q = 1 -> 333 [] q = 2 -> 250 [] OTHER -> 167

\* Math.cbrt(q / 4), in thousandths
CbrtMilli(q) == CASE q = 0 -> 0 [] q = 1 -> 630 [] q = 2 -> 794 [] OTHER -> 909

Milli(a, b) == (a * b) \div 1000

generateSphere(i, n, size) ==
    {LET radius == size * (800 + 50 * r)
         ring == Milli(radius, SinTurns(AcosTurns(t)))
     IN  <<Milli(ring, CosTurns(250 * p)), Milli(ring, SinTurns(250 * p)),
           Milli(radius, CosTurns(AcosTurns(t)))>> :
        t \in RandomQuarters, p \in RandomQuarters, r \in RandomQuarters}

\* u = (Math.random() - 0.5) * 4
CubeCoordinateWide(q, halfSize) == (q - 2) * halfSize

\* u * halfSize with u = (Math.random() - 0.5) * 2
CubeCoordinate(q, halfSize) == ((q - 2) * halfSize) \div 2

generateCube(i, n, size) ==
    {LET halfSize == size * 500
         a == CubeCoordinate(u, halfSize)
         b == CubeCoordinate(v, halfSize)
     IN  CASE face = 0 -> <<a, b, halfSize>>
           [] face = 1 -> <<a, b, -halfSize>>
           [] face = 2 -> <<halfSize, a, b>>
           [] face = 3 -> <<-halfSize, a, b>>
           [] face = 4 -> <<a, halfSize, b>>
           [] OTHER -> <<a, -halfSize, b>> :
        face \in 0..5, u \in RandomQuarters, v \in RandomQuarters}

generatePyramid(i, n, size) ==
    LET baseSize == size * 800
        height == size * 1200
    IN  {IF 250 * rand < 200
         THEN <<0, height \div 2, 0>>
         ELSE LET radius == (q * (baseSize \div 2)) \div 4
              IN  <<Milli(radius, CosTurns(250 * a)),
                    -(height \div 2) + (q * ((height * 3) \div 10)) \div 4,
                    Milli(radius, SinTurns(250 * a))>> :
            rand \in RandomQuarters, a \in RandomQuarters, q \in RandomQuarters}

generateTorus(i, n, size) ==
    {LET tube == size * 600 + Milli(size * 300, CosTurns(250 * v))
     IN  <<Milli(tube, CosTurns(250 * u)), Milli(tube, SinTurns(250 * u)),
           Milli(size * 300, SinTurns(250 * v))>> :
        u \in RandomQuarters, v \in RandomQuarters}

generateGalaxy(i, n, size) ==
    {LET angle == (i * 2000) \div n
         radius == (i * size * 800) \div n
         randomAngle == angle + (q - 2) * 20
     IN  <<Milli(radius, CosTurns(randomAngle)), ((q2 - 2) * size * 300) \div 4,
           Milli(radius, SinTurns(randomAngle))>> :
        q \in RandomQuarters, q2 \in RandomQuarters}

generateSpiral(i, n, size) ==
    LET angle == (i * 4000) \div n
        radius == (i * size * 600) \div n
        height == ((2 * i - n) * size * 1200) \div (2 * n)
    IN  {<<Milli(radius, CosTurns(angle)), height, Milli(radius, SinTurns(angle))>>}

generateFilledSphere(i, n, size) ==
    {LET r == Milli(size * 3000, CbrtMilli(c))
         ring == Milli(r, SinTurns(AcosTurns(t)))
     IN  <<Milli(ring, CosTurns(250 * p)), Milli(ring, SinTurns(250 * p)),
           Milli(r, CosTurns(AcosTurns(t)))>> :
        c \in RandomQuarters, t \in RandomQuarters, p \in RandomQuarters}

generatePlane(i, n, size) ==
    {<<((x - 2) * size * 1500) \div 2, 0, ((z - 2) * size * 1500) \div 2>> :
        x \in RandomQuarters, z \in RandomQuarters}

GeneratorNames ==
    {"sphere", "cube", "pyramid", "torus", "galaxy", "spiral", "filledSphere", "plane"}

\* the points the loop body of a generator can write for particle i
PointsOf(name, i, n, size) ==
    CASE name = "sphere" -> generateSphere(i, n, size)
      [] name = "cube" -> generateCube(i, n, size)
      [] name = "pyramid" -> generatePyramid(i, n, size)
      [] name = "torus" -> generateTorus(i, n, size)
      [] name = "galaxy" -> generateGalaxy(i, n, size)
      [] name = "spiral" -> generateSpiral(i, n, size)
      [] name = "filledSphere" -> generateFilledSphere(i, n, size)
      [] OTHER -> generatePlane(i, n, size)

RECURSIVE PointSequences(_, _, _, _)
\* the points the loop can write for the particles i..n-1
PointSequences(name, i, n, size) ==
    IF i >= n THEN {<<>>}
    ELSE {<<point>> \o rest : point \in PointsOf(name, i, n, size),
                              rest \in PointSequences(name, i + 1, n, size)}

AllocatedLengthPerPoint(n) == n

\* new Float32Array(count * 3)
AllocatedLength(n) == n * 3

\* sizes a generator is called with: the unit size and PARTICLE_SHAPE_SIZE
ShapeSizes == {1, 12}

GeneratorCalls ==
    [name : GeneratorNames, count : 0..MaxPoints, size : ShapeSizes]

\* one call generator.name(count, size)
Generate ==
    /\ lastCall.op /= "generate"
    /\ \E points \in PointSequences(generator.name, 0, generator.count, generator.size) :
          generated' = [j \in 1..AllocatedLength(generator.count) |->
                           IF (j - 1) \div 3 < generator.count
                           THEN points[(j - 1) \div 3 + 1][((j - 1) % 3) + 1]
                           ELSE 0]
    /\ lastCall' = [op |-> "generate", arg |-> Null]
    /\ raised' = FALSE
    /\ UNCHANGED <<morphVars, controlVars, extractVars, failedModels, materialVars, morphSystem, cloud, targetSize,
                   normalizedFrom, yRange, generator>>

InitGenerate ==
    /\ InitMorph
    /\ InitControl
    /\ IdleExtract
    /\ failedModels = {}
    /\ FirstMaterial
    /\ morphSystem = Unmounted
    /\ cloud = NoCloud
    /\ targetSize = 0
    /\ normalizedFrom = NoCloud
    /\ yRange = <<0, 0, 1>>
    /\ generator \in GeneratorCalls
    /\ generated = <<>>
    /\ lastCall = [op |-> "mount", arg |-> Null]
    /\ raised = FALSE

NextGenerate == Generate

SpecGenerate == InitGenerate /\ [][NextGenerate]_vars

----------------------------------------------------------------------------
(* Properties of the morph state machine *)

Initialized == Len(modelPositionsRef) > 0

StoredPositions(index) == modelPositionsRef[index + 1]

\* C1: at most one morph is in progress at any time: there is never more than
\* one running animation loop started by triggerMorph, and the swarm buffer is
\* never recomputed while a loop is running.
C1_AtMostOneMorph ==
    /\ [](Len(loops) <= 1)
    /\ [][Len(loops) > 0 => swarmPositionsRef' = swarmPositionsRef]_vars

\* C2: a triggerMorph() call made while isMorphing is true is a no-op: the
\* target index, the swarm buffer and the morph start time (the set of running
\* loops) are unchanged.
C2_TriggerWhileMorphingIsNoOp ==
    [][(lastCall'.op = "triggerMorph" /\ isMorphing)
         => /\ nextModelIndexRef' = nextModelIndexRef
            /\ swarmPositionsRef' = swarmPositionsRef
            /\ loops' = loops
            /\ morphsStarted' = morphsStarted]_vars

\* C3: when a morph completes the engine is idle with progress 0 and both the
\* source buffer and the live position buffer equal the stored positions of
\* the target shape.
C3_CompletionInstallsTarget ==
    (lastCall = [op |-> "animate", arg |-> "complete"])
        => /\ ~isMorphing
           /\ morphProgress = 0
           /\ ValidIndex(currentModelIndex)
           /\ sourcePositionsRef = StoredPositions(currentModelIndex)
           /\ geometryPosition = StoredPositions(currentModelIndex)

\* C4: starting at shape 0, NumShapes triggerMorph() calls, each made after the
\* previous morph has fully completed, bring the engine back to shape index 0
\* with the source buffer equal to shape 0's original positions.
C4_CyclicClosure ==
    (morphsStarted = NumShapes /\ Quiescent)
        => /\ currentModelIndex = 0
           /\ sourcePositionsRef = ShapeLibrary[1]

\* C5: triggerMorph() called before the position buffers are initialized is a
\* silent no-op: it does not raise, leaves isMorphing, the indices and all
\* buffers unchanged and schedules no animation frame.
C5_TriggerBeforeInitIsNoOp ==
    [][(lastCall'.op = "triggerMorph" /\ ~Initialized)
         => /\ ~raised'
            /\ UNCHANGED <<isMorphing, morphProgress, currentModelIndex, nextModelIndexRef,
                           modelPositionsRef, sourcePositionsRef, swarmPositionsRef,
                           currentPositionsRef, geometryPosition, loops, morphTimelineRef,
                           morphsStarted>>]_vars

\* triggerMorph has been called while nothing was loaded yet
C5_Witness ==
    /\ lastCall.op = "triggerMorph"
    /\ ~Initialized
    /\ sourcePositionsRef = NoBuffer

----------------------------------------------------------------------------
(* Properties of the control surface *)

\* C6: after every frame update the live position buffer holds exactly N
\* positions and the frame update has not raised, whatever control-surface
\* calls were interleaved with the frames.
C6_FrameKeepsValidBuffer ==
    lastCall.op = "useFrame"
        => /\ ~raised
           /\ Initialized => Len(geometryPosition) = BufferLen

\* C7: after setInfluences(weights) the influence uniform equals the weights at
\* the call and at every following frame until the influences are changed
\* again, and the call leaves isMorphing, the morph progress, the shape
\* indices and all position buffers unchanged.
C7_SetInfluencesHolds ==
    /\ [](requestedInfluences /= NoRequest
            => uniforms.u_morphTargetInfluences = requestedInfluences)
    /\ [][lastCall'.op = "setInfluences" => UNCHANGED morphVars]_vars

\* a frame has run mid-morph after setInfluences([0.5, 0, 0])
C7_Witness ==
    /\ lastCall.op = "useFrame"
    /\ render.isMorphing
    /\ requestedInfluences = <<5, 0, 0>>
    /\ uniforms.u_morphTargetInfluences = <<5, 0, 0>>

\* C8: setModelOffset / setRotation with a partial object change only the
\* supplied axes of the animatable position / rotation and leave the other
\* axes at the value they had immediately before the call; with a 3-tuple
\* they set all three axes.
C8_PartialChangesOnlySuppliedAxes ==
    [][/\ lastCall'.op = "setModelOffset"
            => \A a \in Axes :
                 animatableRef'.position[a] =
                     IF a \in lastCall'.arg.given THEN lastCall'.arg[a]
                     ELSE animatableRef.position[a]
       /\ lastCall'.op = "setRotation"
            => \A a \in Axes :
                 animatableRef'.rotation[a] =
                     IF a \in lastCall'.arg.given THEN lastCall'.arg[a]
                     ELSE animatableRef.rotation[a]]_vars

\* C9: setOpacity(value) completes without raising and sets u_opacity to value.
C9_SetOpacitySetsUniform ==
    lastCall.op = "setOpacity"
        => /\ ~raised
           /\ uniforms.u_opacity = lastCall.arg

\* C10: for every particle count N and every scene, including one with no
\* mesh or no vertex, createParticles returns a positions array of 3N floats
\* and an edgeBrightness array of N values.
C10_CreateParticlesLengths ==
    lastCall.op = "createParticles"
        => /\ ~raised
           /\ Len(created.positions) = 3 * count
           /\ Len(created.edgeBrightness) = count

\* more particles were requested than the scene has vertices
C10_Witness ==
    /\ lastCall.op = "createParticles"
    /\ Len(vertices) > 0
    /\ Len(vertices) < count
    /\ Len(created.positions) = 3 * count

\* C11: when the vertex list is shorter than N, slot i of the output holds the
\* position of the vertex at index floor((i / N) * length) mod length together
\* with that same vertex's edge brightness.
C11_CyclicSamplingKeepsVertex ==
    (lastCall.op = "createParticles" /\ Len(vertices) > 0 /\ Len(vertices) < count)
        => \A i \in 1..count :
             \E index \in CyclicIndices(i - 1, Len(vertices), count) :
                /\ <<created.positions[3 * i - 2], created.positions[3 * i - 1],
                     created.positions[3 * i]>> = vertices[index + 1].position
                /\ created.edgeBrightness[i] = vertices[index + 1].edgeBrightness

\* the cyclic sampling returned vertices of two different brightnesses
C11_Witness ==
    /\ lastCall.op = "createParticles"
    /\ Len(vertices) > 0
    /\ Len(vertices) < count
    /\ \E i, j \in 1..count : created.edgeBrightness[i] /= created.edgeBrightness[j]

\* C12 as stated: for every point cloud P and size S > 0 the normalized cloud
\* has a largest bounding-box dimension equal to S and is centred at the origin.
C12_NormalizedExtentIsSize ==
    (lastCall.op = "normalizeWithBounds" /\ Len(normalizedFrom.num) > 0)
        => /\ LargestExtent(cloud) = targetSize * cloud.den
           /\ Centred(cloud)

\* C12 amended: for every point cloud P whose bounding box has a positive
\* largest dimension the normalized cloud has largest dimension S and is
\* centred; a non-empty cloud of coincident points is only centred.
C12_NormalizedExtentIsSizeUnlessDegenerate ==
    (lastCall.op = "normalizeWithBounds" /\ Len(normalizedFrom.num) > 0)
        => /\ Centred(cloud)
           /\ LargestExtent(normalizedFrom) > 0
                => LargestExtent(cloud) = targetSize * cloud.den
           /\ LargestExtent(normalizedFrom) = 0 => LargestExtent(cloud) = 0

\* a cloud with a positive, off-centre bounding box has been normalized
C12_Witness ==
    /\ lastCall.op = "normalizeWithBounds"
    /\ Len(normalizedFrom.num) > 0
    /\ LargestExtent(normalizedFrom) > 0
    /\ ~Centred(normalizedFrom)
    /\ Extent(cloud, 0) < LargestExtent(cloud)

\* C13: normalizing an already normalized cloud again at the same size
\* returns the same positions.
C13_NormalizeIdempotent ==
    [][(lastCall.op = "normalizeWithBounds" /\ lastCall'.op = "normalizeWithBounds")
          => cloud' = cloud]_vars

\* a normalized cloud, different from the cloud it came from, has been
\* normalized a second time
C13_Witness ==
    /\ lastCall.op = "normalizeWithBounds"
    /\ normalizedFrom = cloud
    /\ Len(cloud.num) > 0
    /\ LargestExtent(cloud) > 0
    /\ cloud.den > 1

\* C14: whichever model files fail to load, loadModels raises nothing and
\* leaves a library of five clouds of N points each, every failed model
\* replaced by its procedural fallback, and the source, live and swarm
\* buffers initialised.
C14_LoadModelsFallsBack ==
    lastCall.op = "loadModels"
        => /\ ~raised
           /\ Len(modelPositionsRef) = NumShapes
           /\ \A k \in 1..NumShapes : Len(modelPositionsRef[k]) = BufferLen
           /\ \A k \in failedModels : modelPositionsRef[k] = FallbackShape(k)
           /\ sourcePositionsRef = modelPositionsRef[1]
           /\ geometryPosition = modelPositionsRef[1]
           /\ Len(swarmPositionsRef) = BufferLen

\* the models have been loaded with the first and the third file missing
C14_Witness ==
    /\ lastCall.op = "loadModels"
    /\ failedModels = {1, 3}
    /\ modelPositionsRef[1] = FallbackShape(1)
    /\ modelPositionsRef[2] = ShapeLibrary[2]

\* C15: every shape generator called with (count, size) returns exactly
\* count points, an array of 3 * count floats, for every count >= 0.
C15_GeneratorsReturnCountPoints ==
    lastCall.op = "generate" => Len(generated) = 3 * generator.count

\* a generator whose points depend on the particle index has produced
\* several points
C15_Witness ==
    /\ lastCall.op = "generate"
    /\ generator.name = "spiral"
    /\ generator.count > 1
    /\ Len(generated) = 3 * generator.count
    /\ generated[2] /= generated[5]

\* C16: every point produced by generateCube(count, size) lies on a face of
\* the cube: max(|x|, |y|, |z|) equals size / 2.
C16_CubePointsOnFaces ==
    (lastCall.op = "generate" /\ generator.name = "cube")
        => \A i \in 1..generator.count :
             Max(Abs(generated[3 * i - 2]),
                 Max(Abs(generated[3 * i - 1]), Abs(generated[3 * i])))
                 = generator.size * 500

\* a cube point with an in-face coordinate at the edge of the face
C16_Witness ==
    /\ lastCall.op = "generate"
    /\ generator.name = "cube"
    /\ generator.count > 0
    /\ Abs(generated[1]) = generator.size * 500
    /\ Abs(generated[2]) = generator.size * 500
    /\ Abs(generated[3]) = generator.size * 500

-----------------------------------------------------------------------------
(* Properties of the morph state across the control surface *)

\* C17: whenever the system is Idle (initialised and isMorphing false) the
\* source buffer equals the stored positions of the shape at
\* currentModelIndex, after any sequence of triggerMorph calls, completions
\* and setTargetModelIndex calls.
C17_IdleSourceIsCurrentShape ==
    (Initialized /\ ~isMorphing)
        => /\ ValidIndex(currentModelIndex)
           /\ sourcePositionsRef = StoredPositions(currentModelIndex)

\* C18: during an active morph every per-frame position update interpolates
\* toward the shape index chosen when that morph was triggered (the index its
\* animation loop installs on completion), whatever setTargetModelIndex calls
\* happen meanwhile.
C18_FrameTargetsTriggeredIndex ==
    (lastCall.op = "useFrame" /\ render.isMorphing /\ isMorphing /\ Len(loops) > 0)
        => \E i \in 1..Len(loops) : loops[i].nextModelIndex = nextModelIndexRef

\* C19: in every reachable state the morph progress lies in [0, 1], and
\* whenever isMorphing is false the morph progress is 0.
C19_ProgressInRangeAndZeroWhenIdle ==
    /\ morphProgress \in 0..ProgressScale
    /\ ~isMorphing => morphProgress = 0

\* C20: every morph that is started eventually completes while animation
\* frames keep firing and time advances: its loop ends with isMorphing false,
\* the current index set to the index chosen at the trigger and the
\* shape-changed notification for that index emitted, exactly once per morph.
C20_StartedMorphCompletes ==
    /\ \A n \in 1..MaxMorphs : (morphsStarted >= n) ~> (Len(shapeChanges) >= n)
    /\ (Len(loops) > 0) ~> (~isMorphing)
    /\ [](Len(shapeChanges) + Len(loops) = morphsStarted)
    /\ [][(lastCall'.op = "animate" /\ lastCall'.arg = "complete")
            => /\ ~isMorphing'
               /\ \E i \in 1..Len(loops) :
                    /\ loops' = RemoveAt(loops, i)
                    /\ currentModelIndex' = loops[i].nextModelIndex
                    /\ shapeChanges' = Append(shapeChanges, loops[i].nextModelIndex)]_vars
    /\ [][shapeChanges' /= shapeChanges => lastCall'.op = "animate"]_vars

C20_Witness ==
    /\ lastCall.op = "animate"
    /\ lastCall.arg = "complete"
    /\ morphsStarted = MaxMorphs
    /\ loops = <<>>
    /\ Len(shapeChanges) = MaxMorphs
    /\ ~isMorphing
    /\ currentModelIndex = shapeChanges[Len(shapeChanges)]

\* C21: currentModelIndex and nextModelIndexRef are always valid indices into
\* the shape library (0 <= index < number of shapes), after any sequence of
\* triggerMorph calls, completions and setTargetModelIndex calls with
\* arbitrary integer arguments.
C21_IndicesStayValid ==
    Initialized => (ValidIndex(currentModelIndex) /\ ValidIndex(nextModelIndexRef))

-----------------------------------------------------------------------------
(* Properties of the shader material *)

\* C22: values written through setScale, setScatter and setUseTexture and the
\* model Y range written by loadModels stay in effect on the material in use
\* when the shader material is recreated: each of these uniforms changes only
\* when its own setter (or loadModels) writes it.
C22_MaterialKeepsWrittenUniforms ==
    [][/\ uniforms'.u_scale /= uniforms.u_scale => lastCall'.op = "setScale"
       /\ uniforms'.uScatterAmount /= uniforms.uScatterAmount => lastCall'.op = "setScatter"
       /\ uniforms'.uUseTexture /= uniforms.uUseTexture => lastCall'.op = "setUseTexture"
       /\ (\/ uniforms'.uModelMinY /= uniforms.uModelMinY
           \/ uniforms'.uModelMaxY /= uniforms.uModelMaxY) => lastCall'.op = "loadModels"]_vars

\* C23: after setTargetModelIndex(index) the u_morphTargetInfluences uniform
\* holds the influence pattern assigned for that index at the rendered frames
\* that follow, until another control call changes the influences; in
\* particular at the frame rendered right after the call.
C23_TargetInfluencesHoldAtNextFrame ==
    [][(lastCall.op = "setTargetModelIndex" /\ lastCall'.op = "useFrame")
          => uniforms'.u_morphTargetInfluences = TargetInfluences(lastCall.arg)]_vars

-----------------------------------------------------------------------------
(* Properties of ParticleMorphSystem *)

\* C24: in ParticleMorphSystem, during a morph the per-frame Bezier
\* interpolation ends at the next shape, index (currentShapeIndex + 1) mod
\* shape count: the shape the swarm waypoints were computed toward and that
\* becomes current on completion.
C24_MorphFrameEndsAtNextShape ==
    (/\ lastCall.op = "pmsUseFrame"
     /\ morphSystem.render.isMorphing
     /\ Len(morphSystem.loops) > 0)
        => /\ morphSystem.frameTarget = morphSystem.swarmTarget
           /\ \E i \in 1..Len(morphSystem.loops) :
                morphSystem.frameTarget = morphSystem.loops[i].nextShapeIndex

-----------------------------------------------------------------------------
(* Properties of the per-frame morph update *)

\* C25: the positions written by the per-frame morph update at eased progress
\* 0 are exactly the source positions and at eased progress 1 exactly the
\* target positions: the Bezier curve reduces to its end points and neither
\* swirl nor noise is applied there.
C25_BezierEndPoints ==
    (lastCall.op = "useFrame" /\ render.isMorphing)
        => /\ ~raised
           /\ render.morphProgress = 0 => geometryPosition = sourcePositionsRef
           /\ render.morphProgress = ProgressScale
                => geometryPosition = StoredPositions(nextModelIndexRef)

C25_Witness ==
    /\ lastCall.op = "useFrame"
    /\ render.isMorphing
    /\ render.morphProgress = ProgressScale
    /\ geometryPosition = StoredPositions(nextModelIndexRef)
    /\ geometryPosition /= sourcePositionsRef
    /\ swarmPositionsRef /= geometryPosition

-----------------------------------------------------------------------------
(* Properties of the shape library *)

\* C26: the shape library is immutable after the initial load: no triggerMorph
\* call, frame update, morph completion or control-surface setter changes a
\* stored shape, not even through the live geometry buffer or the source
\* buffer.
C26_LibraryImmutable ==
    [][Initialized => modelPositionsRef' = modelPositionsRef]_vars

C26_Witness ==
    /\ Initialized
    /\ lastCall.op = "useFrame"
    /\ geometryPosition /= StoredPositions(0)
    /\ sourcePositionsRef /= StoredPositions(0)
    /\ Len(shapeChanges) > 0

-----------------------------------------------------------------------------
(* Properties of the frame uniforms *)

C28_SampledIndexInsideStrideWindow ==
    (/\ lastCall.op = "createParticles"
     /\ count > 0
     /\ Len(vertices) >= count)
        => \A i \in 0..(count - 1) :
              /\ sampled[i + 1] \in 0..(Len(vertices) - 1)
              /\ sampled[i + 1] >= (i * Len(vertices)) \div count
              /\ sampled[i + 1] < ((i + 1) * Len(vertices)) \div count

\* the entries of the working list that came from vertex i of the k-th node
CopiesOf(k, i) ==
    {j \in 1..Len(vertices) : vertices[j].position = VertexData(k, i, gltf[k].name).position}

\* C29: a vertex of a mesh with density weight w >= 1 is in the working list
\* floor(w) times plus at most one more copy, the extra copy only when w has a
\* fractional part; a vertex with w < 1 is there zero or one time; every copy
\* carries the mesh's edge brightness.  (Weights are in tenths.)
C29_DensityReplication ==
    lastCall.op = "createParticles"
        => \A k \in 1..Len(gltf) :
              gltf[k].kind = "Mesh"
                 => \A i \in 1..gltf[k].vertexCount :
                       LET w == getDensityWeight(gltf[k].name)
                           copies == Cardinality(CopiesOf(k, i))
                       IN  /\ w >= 10 => /\ copies >= w \div 10
                                         /\ copies <= w \div 10 + 1
                                         /\ w % 10 = 0 => copies = w \div 10
                           /\ w < 10 => copies \in {0, 1}
                           /\ \A j \in CopiesOf(k, i) :
                                 vertices[j].edgeBrightness
                                    = getEdgeBrightness(gltf[k].name, edgeBrightnessConfig)

\* a 'Circle' vertex (weight 1.5) was pushed twice and a 'glass' vertex
\* (weight 0.3) was dropped, under a caller's brightness config
C29_Witness ==
    /\ lastCall.op = "createParticles"
    /\ edgeBrightnessConfig.given
    /\ \E k \in 1..Len(gltf) :
          /\ gltf[k].kind = "Mesh" /\ gltf[k].name = "Circle" /\ gltf[k].vertexCount > 0
          /\ Cardinality(CopiesOf(k, 1)) = 2
    /\ \E k \in 1..Len(gltf) :
          /\ gltf[k].kind = "Mesh" /\ gltf[k].name = "glass" /\ gltf[k].vertexCount > 0
          /\ Cardinality(CopiesOf(k, 1)) = 0

\* C30: when no vertex is collected (no mesh, or every vertex dropped by the
\* density sampling) createParticles returns, without raising, a positions
\* array of N * 3 zeros and an edgeBrightness array of N values all equal to
\* the configured default brightness.
C30_EmptyListGivesDefaultShape ==
    (lastCall.op = "createParticles" /\ Len(vertices) = 0)
        => /\ ~raised
           /\ Len(created.positions) = count * 3
           /\ \A j \in 1..(count * 3) : created.positions[j] = 0
           /\ Len(created.edgeBrightness) = count
           /\ \A i \in 1..count :
                 created.edgeBrightness[i]
                    = (IF edgeBrightnessConfig.given THEN edgeBrightnessConfig.default
                       ELSE NAME_EDGE_BRIGHTNESS.default)

\* every vertex of the scene was dropped: a 'glass' mesh with a vertex, an
\* empty working list and N > 0 particles asked for, under a caller's config
C30_Witness ==
    /\ lastCall.op = "createParticles"
    /\ Len(vertices) = 0
    /\ count > 0
    /\ edgeBrightnessConfig.given
    /\ \E k \in 1..Len(gltf) :
          gltf[k].kind = "Mesh" /\ gltf[k].name = "glass" /\ gltf[k].vertexCount > 0
    /\ created.edgeBrightness[count] = edgeBrightnessConfig.default

====
